---------------------------- MODULE Spec2Model ----------------------------
(***************************************************************************)
(* openrc-watch.py: supervision of OpenRC services.                        *)
(*                                                                         *)
(* The model has two layers.  The pure layer is the text processing of     *)
(* load_daemon (lines of characters, split on '=', int()), load_daemons    *)
(* and check_daemons, evaluated over the filesystem and process table of   *)
(* the current state.  The control layer is one supervision session: the   *)
(* entry point, atexit registration, the start action, the polling loop of *)
(* monitor_services with its sleep phase and confirmation gate, the        *)
(* propagation of uncaught exceptions, and the atexit handlers run at      *)
(* interpreter exit.  The environment (init subsystem, daemons, operator)  *)
(* changes the filesystem and process table between the steps.             *)
(***************************************************************************)
EXTENDS Integers, Sequences, FiniteSets, TLC

(***************************************************************************)
(* Bounds of the model.                                                    *)
(***************************************************************************)
MaxTicks == 2

MaxEnvChanges == 1

MaxPrompts == 1

MaxDaemons == 1

(***************************************************************************)
(* Python values.  None is the empty tuple and a present value x is <<x>>, *)
(* so that None differs from the empty string and from 0.                  *)
(***************************************************************************)
None == << >>

Some(x) == <<x>>

NL == "\n"

Whitespace == {" ", "\t", NL, "\r"}

Digits == {"0", "1", "2", "3", "4", "5", "6", "7", "8", "9"}

DigitVal(c) ==
  CASE c = "0" -> 0 [] c = "1" -> 1 [] c = "2" -> 2 [] c = "3" -> 3
    [] c = "4" -> 4 [] c = "5" -> 5 [] c = "6" -> 6 [] c = "7" -> 7
    [] c = "8" -> 8 [] c = "9" -> 9

(***************************************************************************)
(* str methods used by the program, on sequences of characters.            *)
(***************************************************************************)
RECURSIVE RStrip(_)
RStrip(s) ==
  IF s = << >> \/ s[Len(s)] \notin Whitespace
    THEN s
    ELSE RStrip(SubSeq(s, 1, Len(s) - 1))

RECURSIVE LStrip(_)
LStrip(s) ==
  IF s = << >> \/ s[1] \notin Whitespace
    THEN s
    ELSE LStrip(Tail(s))

\* s.find(c) + 1: the first position of c in s, 0 when absent.
Find(s, c) ==
  IF \E i \in 1..Len(s) : s[i] = c
    THEN CHOOSE i \in 1..Len(s) : s[i] = c /\ \A j \in 1..(i - 1) : s[j] # c
    ELSE 0

\* s.split(c, 1)
Split1(s, c) ==
  LET i == Find(s, c)
  IN  IF i = 0
        THEN <<s>>
        ELSE <<SubSeq(s, 1, i - 1), SubSeq(s, i + 1, Len(s))>>

\* s.split(c)
RECURSIVE Split(_, _)
Split(s, c) ==
  LET i == Find(s, c)
  IN  IF i = 0
        THEN <<s>>
        ELSE <<SubSeq(s, 1, i - 1)>> \o Split(SubSeq(s, i + 1, Len(s)), c)

StartsWith(s, p) ==
  Len(s) >= Len(p) /\ SubSeq(s, 1, Len(p)) = p

RECURSIVE DecimalValue(_)
DecimalValue(s) ==
  IF s = << >>
    THEN 0
    ELSE 10 * DecimalValue(SubSeq(s, 1, Len(s) - 1)) + DigitVal(s[Len(s)])

\* int(s): surrounding whitespace is ignored, one optional sign, then one or
\* more decimal digits; anything else raises ValueError.
PyInt(s) ==
  LET t == RStrip(LStrip(s))
      signed == t # << >> /\ t[1] \in {"+", "-"}
      body == IF signed THEN Tail(t) ELSE t
  IN  IF body # << >> /\ \A i \in 1..Len(body) : body[i] \in Digits
        THEN [ok |-> TRUE,
              val |-> IF signed /\ t[1] = "-"
                        THEN 0 - DecimalValue(body)
                        ELSE DecimalValue(body)]
        ELSE [ok |-> FALSE, val |-> 0]


(***************************************************************************)
(* The filesystem the program reads.  A text file is a sequence of lines,  *)
(* a line a sequence of characters ending in a newline.                    *)
(***************************************************************************)
Services == {"web", "db", "cache"}

WebPidPath == <<"/", "r", "u", "n", "/", "w", "e", "b", ".", "p", "i", "d">>

DbPidPath == <<"/", "r", "u", "n", "/", "d", "b", ".", "p", "i", "d">>

PidPaths == {WebPidPath, DbPidPath}

Pids == {17, 4242}

\* What a pid file path can hold: nothing, a regular file that cannot be
\* opened, or a regular file with the given first line.
Absent == [kind |-> "absent", line |-> << >>]

Unreadable == [kind |-> "unreadable", line |-> << >>]

PidFile17 == [kind |-> "file", line |-> <<"1", "7", NL>>]

PidFile4242 == [kind |-> "file", line |-> <<"4", "2", "4", "2", NL>>]

PidFileGarbage == [kind |-> "file", line |-> <<"a", "b", "c", NL>>]

\* What the environment can turn a pid file into.
PidFileDamage == {Absent, Unreadable, PidFileGarbage}

\* /var/run/openrc/started/<name>: a link to the service's init script.
StartedPath(name) == [dir |-> "started", name |-> name, entry |-> 0]

\* /var/run/openrc/daemons/<name>/<entry>: one daemon descriptor.
DaemonPath(name, d) == [dir |-> "daemons", name |-> name, entry |-> d]

InitScriptWeb ==
  << <<"#", "!", "/", "s", "b", "i", "n", "/", "o", "p", "e", "n", "r", "c",
       "-", "r", "u", "n", NL>>,
     <<"c", "o", "m", "m", "a", "n", "d", "=", "/", "b", "i", "n", "/", "w",
       "e", "b", NL>>,
     <<"p", "i", "d", "f", "i", "l", "e", "=", "/", "r", "u", "n", "/", "w",
       "e", "b", ".", "p", "i", "d", NL>> >>

InitScriptDb ==
  << <<"#", "!", "/", "s", "b", "i", "n", "/", "o", "p", "e", "n", "r", "c",
       "-", "r", "u", "n", NL>>,
     <<"c", "o", "m", "m", "a", "n", "d", "_", "a", "r", "g", "s", "=", "-",
       "-", "u", "s", "e", "r", "=", "d", "b", NL>> >>

InitScriptCache ==
  << <<"#", "!", "/", "s", "b", "i", "n", "/", "o", "p", "e", "n", "r", "c",
       "-", "r", "u", "n", NL>>,
     <<"p", "i", "d", "f", "i", "l", "e", "=", "\"", "/", "r", "u", "n", "/",
       "c", "a", "c", "h", "e", ".", "p", "i", "d", "\"", NL>> >>

DescriptorWeb ==
  << <<"e", "x", "e", "c", "=", "/", "b", "i", "n", "/", "w", "e", "b", NL>>,
     <<"a", "r", "g", "v", "_", "0", "=", "/", "b", "i", "n", "/", "w", "e",
       "b", NL>>,
     <<"a", "r", "g", "v", "_", "1", "=", "-", "f", NL>>,
     <<"p", "i", "d", "f", "i", "l", "e", "=", "/", "r", "u", "n", "/", "w",
       "e", "b", ".", "p", "i", "d", NL>> >>

DescriptorDb ==
  << <<"e", "x", "e", "c", "=", "/", "b", "i", "n", "/", "d", "b", NL>>,
     <<"a", "r", "g", "v", "_", "1", "=", "-", "-", "u", "s", "e", "r", "=",
       "d", "b", NL>>,
     <<"a", "r", "g", "v", "_", "0", "=", "/", "b", "i", "n", "/", "d", "b",
       NL>>,
     <<"p", "i", "d", "f", "i", "l", "e", "=", "/", "r", "u", "n", "/", "d",
       "b", ".", "p", "i", "d", NL>> >>

DescriptorCache ==
  << <<"a", "r", "g", "v", "_", "0", "=", "/", "b", "i", "n", "/", "c", "a",
       "c", "h", "e", NL>> >>

\* A path outside the init subsystem's directories, for a direct call of
\* load_daemon.
InputPath == [dir |-> "input", name |-> "", entry |-> 0]

\* The lines of the file at a path (fp.readlines()).
FileLines(path, fs) ==
  IF path.dir = "input"
    THEN fs.input
  ELSE IF path.dir = "started"
    THEN CASE path.name = "web" -> InitScriptWeb
           [] path.name = "db" -> InitScriptDb
           [] OTHER -> InitScriptCache
    ELSE CASE path.name = "web" -> DescriptorWeb
           [] path.name = "db" -> DescriptorDb
           [] OTHER -> DescriptorCache

(***************************************************************************)
(* A filesystem and process table fs is a record                           *)
(*   started      the services the init subsystem records as started       *)
(*   daemonCount  per service, the number of daemon entries it records     *)
(*   pidfiles     per pid file path, what it holds                         *)
(*   alive        the process ids os.kill(pid, 0) can signal               *)
(*   runlevel     the names under /etc/runlevels/<default>                 *)
(*   runtime      whether the directories /var/run/openrc/started and      *)
(*                /run/openrc/daemons, where these records are kept, exist *)
(*   input        the lines of the file at InputPath                       *)
(***************************************************************************)

\* Mutant of glob_started: the records are answered although the directory
\* is not there.
glob_started_Stale(fs) == fs.started

\* glob.glob('/var/run/openrc/started/*'): the started entries, none when
\* the directory does not exist (glob raises nothing for a missing path).
glob_started(fs) == IF fs.runtime THEN fs.started ELSE {}

\* glob.glob('/run/openrc/daemons/<name>/*'): how many entries it yields.
glob_daemons(name, fs) == IF fs.runtime THEN fs.daemonCount[name] ELSE 0

\* os.kill(pid, 0) succeeds: for a positive pid the process exists and may be
\* signalled; pid 0 addresses the caller's own process group and -1 every
\* process, which exist; a pid below -1 addresses the process group -pid,
\* which exists while its leader does.
KillSucceeds(pid, fs) ==
  \/ pid \in {0, -1}
  \/ pid > 0 /\ pid \in fs.alive
  \/ pid < -1 /\ (0 - pid) \in fs.alive

\* Mutant of check_pid: every pid is answered True.
check_pid_Always(pid, fs) == TRUE

\* check_pid: OSError from os.kill is caught and answered False.
check_pid(pid, fs) == KillSucceeds(pid, fs)

\* os.path.isfile on a str.
IsFile(path, fs) ==
  path \in PidPaths /\ fs.pidfiles[path].kind # "absent"

PidfileKey == <<"p", "i", "d", "f", "i", "l", "e">>

ArgvPrefix == <<"a", "r", "g", "v", "_">>

(***************************************************************************)
(* The dict daemon['argv'] of CPython 2: an open-addressing table of       *)
(* PyDict_MINSIZE slots that grows when two thirds are filled.  An int key *)
(* hashes to itself; the files of this model hold no negative index.  A    *)
(* slot is None or Some of a key and its value.                            *)
(***************************************************************************)
PyDict_MINSIZE == 8

\* {} of line 40.
EmptyDict ==
  [size |-> PyDict_MINSIZE, slots |-> [i \in 0..PyDict_MINSIZE - 1 |-> None]]

\* The slot a key is found in or goes to: slot hash & mask, and on a
\* collision the probe sequence i = 5 i + perturb + 1, perturb >>= 5.
RECURSIVE lookdict(_, _, _, _)
lookdict(mp, key, i, perturb) ==
  IF mp.slots[i] = None \/ mp.slots[i][1].key = key
    THEN i
    ELSE lookdict(mp, key, (5 * i + perturb + 1) % mp.size, perturb \div 32)

\* The entry stored in the slot lookdict finds.
StoreItem(mp, key, value) ==
  [mp EXCEPT !.slots[lookdict(mp, key, key % mp.size, key)] =
               Some([key |-> key, value |-> value])]

\* The slots in use.
Used(mp) == Cardinality({i \in DOMAIN mp.slots : mp.slots[i] # None})

\* dictresize's new size: the first power of two above minused.
RECURSIVE NewSize(_, _)
NewSize(size, minused) ==
  IF size > minused THEN size ELSE NewSize(2 * size, minused)

\* dictresize's copy: the entries of the old table from slot i on are stored
\* in the new table, in slot order.
RECURSIVE Reinsert(_, _, _)
Reinsert(new, old, i) ==
  IF i >= old.size
    THEN new
    ELSE CHOOSE result \in
           {Reinsert(next, old, i + 1) :
              next \in {IF old.slots[i] = None
                          THEN new
                          ELSE StoreItem(new, old.slots[i][1].key,
                                         old.slots[i][1].value)}} : TRUE

dictresize(mp, minused) ==
  CHOOSE result \in
    {Reinsert([size |-> size, slots |-> [i \in 0..size - 1 |-> None]], mp, 0) :
       size \in {NewSize(PyDict_MINSIZE, minused)}} : TRUE

\* daemon['argv'][index] = value, line 41: the entry is stored, and the
\* table is resized when a new key fills two thirds of it.
PyDict_SetItem(mp, key, value) ==
  CHOOSE result \in
    {IF Used(stored) > Used(mp) /\ Used(stored) * 3 >= stored.size * 2
       THEN dictresize(stored, 4 * Used(stored))
       ELSE stored :
       stored \in {StoreItem(mp, key, value)}} : TRUE

\* The record load_daemon builds, before any line is read: argv is None
\* while daemon has no key 'argv', else Some of the dict.  raised names the
\* exception that left the function, "none" while there is none.
EmptyDaemon == [pid |-> None, argv |-> None, raised |-> "none"]

\* The daemon record with the line's effect: the body of the for loop.
DaemonLine(daemon, line, fs) ==
  LET temp == Split1(RStrip(line), "=")
      key == temp[1]
      value == IF Len(temp) = 2 THEN Some(temp[2]) ELSE None
  IN  IF StartsWith(key, ArgvPrefix)
        THEN LET index == PyInt(Split(key, "_")[2])
             IN  IF ~index.ok
                   THEN [daemon EXCEPT !.raised = "ValueError"]
                   ELSE [daemon EXCEPT
                           !.argv = Some(PyDict_SetItem(
                                      IF @ = None THEN EmptyDict ELSE @[1],
                                      index.val, value))]
      ELSE IF key = PidfileKey
        THEN IF value = None
               THEN [daemon EXCEPT !.raised = "TypeError"]
             ELSE IF ~IsFile(value[1], fs)
               THEN daemon
             ELSE IF fs.pidfiles[value[1]].kind = "unreadable"
               THEN [daemon EXCEPT !.raised = "IOError"]
             ELSE LET pid == PyInt(RStrip(fs.pidfiles[value[1]].line))
                  IN  IF ~pid.ok
                        THEN [daemon EXCEPT !.raised = "ValueError"]
                      ELSE IF check_pid(pid.val, fs)
                        THEN [daemon EXCEPT !.pid = Some(pid.val)]
                      ELSE daemon
      ELSE daemon

\* The for loop over the lines from line i on; an exception ends it.  (The
\* record after a line is bound as the element of a singleton set, which
\* evaluates it once.)
RECURSIVE ReadLines(_, _, _, _)
ReadLines(daemon, lines, i, fs) ==
  IF i > Len(lines) \/ daemon.raised # "none"
    THEN daemon
    ELSE CHOOSE result \in
           {ReadLines(next, lines, i + 1, fs) :
              next \in {DaemonLine(daemon, lines[i], fs)}} : TRUE

\* Mutant of DictValues: the slots are walked from the last to the first.
RECURSIVE DictValues_Backwards(_, _)
DictValues_Backwards(mp, i) ==
  IF i >= mp.size
    THEN << >>
    ELSE DictValues_Backwards(mp, i + 1)
         \o (IF mp.slots[i] = None THEN << >> ELSE <<mp.slots[i][1].value>>)

\* dict.values(), line 49: the values of the slots in use from slot i on,
\* in slot order.
RECURSIVE DictValues(_, _)
DictValues(mp, i) ==
  IF i >= mp.size
    THEN << >>
    ELSE (IF mp.slots[i] = None THEN << >> ELSE <<mp.slots[i][1].value>>)
         \o DictValues(mp, i + 1)

load_daemon(path, fs) ==
  CHOOSE result \in
    {IF daemon.raised # "none"
       THEN daemon
       ELSE [daemon EXCEPT !.argv = IF @ = None THEN << >>
                                               ELSE DictValues(@[1], 0)] :
       daemon \in {ReadLines(EmptyDaemon, FileLines(path, fs), 1, fs)}} : TRUE

\* The path line 63 hands to load_daemon for the daemon entry d of a service:
\* the loop variable of the outer loop, the service's started entry.
DaemonFileRead(name, d) == StartedPath(name)

\* The inner for loop of load_daemons over the entries d..daemonCount of one
\* service: the service record with the daemons appended and the status set.
RECURSIVE LoadEntries(_, _, _, _)
LoadEntries(service, name, d, fs) ==
  IF d > glob_daemons(name, fs) \/ service.raised # "none"
    THEN service
    ELSE CHOOSE result \in
           {IF daemon.raised # "none"
              THEN [service EXCEPT !.raised = daemon.raised]
              ELSE LoadEntries(
                     [service EXCEPT
                        !.daemons = Append(@, daemon),
                        !.status = IF daemon.pid = None THEN "stopped" ELSE @],
                     name, d + 1, fs) :
              daemon \in {load_daemon(DaemonFileRead(name, d), fs)}} : TRUE

\* Mutant of load_service: the status starts as stopped.
load_service_InitiallyStopped(name, fs) ==
  LoadEntries([status |-> "stopped", daemons |-> << >>, raised |-> "none"],
              name, 1, fs)

load_service(name, fs) ==
  LoadEntries([status |-> "started", daemons |-> << >>, raised |-> "none"],
              name, 1, fs)

\* load_daemons: the mapping name -> service record, or, when a service's
\* read raises, the exceptions that can leave the call (glob's order decides
\* which service is read first, so any one of them can).
load_daemons(fs) ==
  CHOOSE result \in
    {LET raises == {services[name].raised : name \in glob_started(fs)}
                     \ {"none"}
     IN  IF raises # {}
           THEN [raised |-> raises, services |-> << >>]
           ELSE [raised |-> {}, services |-> services] :
       services \in
         {[name \in glob_started(fs) |-> load_service(name, fs)]}} : TRUE

\* Mutant of MissingOf: a required service that is no key of the mapping is
\* not reported.
RECURSIVE MissingOf_KnownOnly(_, _)
MissingOf_KnownOnly(required, daemons) ==
  IF required = << >>
    THEN {}
    ELSE LET service == Head(required)
         IN  (IF /\ service \in DOMAIN daemons
                 /\ daemons[service].status = "stopped"
                THEN {service}
                ELSE {})
             \cup MissingOf_KnownOnly(Tail(required), daemons)

\* Mutant of MissingOf: the loop is left at the first missing service.
RECURSIVE MissingOf_FirstOnly(_, _)
MissingOf_FirstOnly(required, daemons) ==
  IF required = << >>
    THEN {}
    ELSE LET service == Head(required)
         IN  IF \/ service \in DOMAIN daemons
                   /\ daemons[service].status = "stopped"
                \/ service \notin DOMAIN daemons
               THEN {service}
               ELSE MissingOf_FirstOnly(Tail(required), daemons)

\* The for loop of check_daemons over the required list.
RECURSIVE MissingOf(_, _)
MissingOf(required, daemons) ==
  IF required = << >>
    THEN {}
    ELSE LET service == Head(required)
         IN  (IF \/ service \in DOMAIN daemons
                    /\ daemons[service].status = "stopped"
                 \/ service \notin DOMAIN daemons
                THEN {service}
                ELSE {})
             \cup MissingOf(Tail(required), daemons)

\* check_daemons: the outcomes of the call, each the missing set returned or
\* the exception that leaves it.
check_daemons(required, fs) ==
  UNION {IF daemons.raised # {}
           THEN {[raised |-> e, missing |-> {}] : e \in daemons.raised}
           ELSE {[raised |-> "none",
                  missing |-> MissingOf(required, daemons.services)]} :
           daemons \in {load_daemons(fs)}}

(***************************************************************************)
(* One run of the program.                                                 *)
(***************************************************************************)
VARIABLES
  fs,            \* the filesystem and process table (see above)
  envChanges,    \* how many times the environment has changed fs
  entry,         \* the call that starts the run, with its arguments
  pc,            \* where the program is
  exitfuncs,     \* the handlers registered with atexit, in order
  calls,         \* the argv of every subprocess.call made so far
  required,      \* monitor_services' services
  missing,       \* monitor_services' missing
  snap,          \* the fs that the last check_daemons call read
  ticks,         \* check_daemons calls begun
  sleeps,        \* time.sleep calls begun
  prompts,       \* responses the current gate has refused
  lastAnswer,    \* the response the last gate accepted, "-" before any
  handlerCalls,  \* the arguments of every handler call so far
  raised,        \* the uncaught exception that ends the run, with its place
  loopExit,      \* how the while loop was left: "none" while it has not been
  cleanupRuns,   \* how many times a registered cleanup action has been run
  loaded         \* what the last direct call of load_daemon answered

vars ==
  <<fs, envChanges, entry, pc, exitfuncs, calls, required, missing, snap,
    ticks, sleeps, prompts, lastAnswer, handlerCalls, raised, loopExit,
    cleanupRuns, loaded>>

envVars == <<fs, envChanges>>

loopVars ==
  <<required, missing, snap, ticks, sleeps, prompts, lastAnswer, handlerCalls>>

\* The service lists a run is started with.
ServiceLists ==
  {<< >>, <<"web">>, <<"web", "db">>, <<"db", "web", "cache">>,
   <<"cache", "cache">>}

\* The calls that start a run: main with its parsed arguments, or one of the
\* supervision functions called directly.
Entries ==
  {[fn |-> "main", services |-> s, default |-> d,
    shutdown |-> IF d = None THEN None ELSE Some("shutdown"),
    handler |-> FALSE] :
      s \in {None, Some(<<"web">>)}, d \in {None, Some("default")}}
  \cup {[fn |-> "supervise_runlevel", services |-> None,
         default |-> Some("default"), shutdown |-> Some("shutdown"),
         handler |-> FALSE]}
  \cup {[fn |-> "supervise_services", services |-> Some(l), default |-> None,
         shutdown |-> None, handler |-> FALSE] : l \in ServiceLists}
  \cup {[fn |-> "monitor_services", services |-> Some(l), default |-> None,
         shutdown |-> None, handler |-> TRUE] : l \in ServiceLists}

NoException == [type |-> "none", at |-> "none"]

InitFs ==
  {[started |-> {"web", "db"},
    daemonCount |-> [s \in Services |-> IF s = "web" THEN 1 ELSE 0],
    pidfiles |-> [p \in PidPaths |-> IF p = WebPidPath THEN PidFile17
                                                      ELSE PidFile4242],
    alive |-> Pids,
    runlevel |-> {"web", "db"},
    runtime |-> TRUE,
    input |-> << >>]}

Init ==
  /\ fs \in InitFs
  /\ envChanges = 0
  /\ entry \in Entries
  /\ pc = CASE entry.fn = "main" -> "main"
            [] entry.fn = "monitor_services" -> "monitor"
            [] OTHER -> "supervise"
  /\ exitfuncs = << >>
  /\ calls = << >>
  /\ required = << >>
  /\ missing = {}
  /\ snap = fs
  /\ ticks = 0
  /\ sleeps = 0
  /\ prompts = 0
  /\ lastAnswer = "-"
  /\ handlerCalls = << >>
  /\ raised = NoException
  /\ loopExit = "none"
  /\ cleanupRuns = 0
  /\ loaded = EmptyDaemon

(***************************************************************************)
(* The program's steps.                                                    *)
(***************************************************************************)

\* The program ends with the uncaught exception e raised at place.
Raise(e, place) ==
  /\ raised' = [type |-> e, at |-> place]
  /\ pc' = "exit"

\* main, lines 148-172, after the arguments are parsed.  Line 162 reads the
\* undefined name default_runlevel whenever args.default_runlevel is given.
Main ==
  /\ pc = "main"
  /\ IF entry.default # None
       THEN Raise("NameError", "main")
     ELSE IF entry.services = None
       THEN pc' = "exit" /\ UNCHANGED raised       \* print_help, sys.exit(0)
     ELSE pc' = "supervise" /\ UNCHANGED raised    \* supervise_services
  /\ UNCHANGED <<envVars, entry, loaded, exitfuncs, calls, loopVars, loopExit,
                 cleanupRuns>>

\* Mutant of AtexitRegister: nothing is registered.
AtexitRegister_Nothing ==
  /\ pc = "supervise"
  /\ pc' = "start"
  /\ UNCHANGED <<envVars, entry, loaded, exitfuncs, calls, loopVars, raised,
                 loopExit, cleanupRuns>>

\* atexit.register(lambda: ...), line 117 resp. 137.
AtexitRegister ==
  /\ pc = "supervise"
  /\ exitfuncs' =
       Append(exitfuncs,
              IF entry.fn = "supervise_runlevel"
                THEN [fn |-> "switch_runlevel", arg |-> entry.shutdown]
                ELSE [fn |-> "stop_services", arg |-> entry.services])
  /\ pc' = "start"
  /\ UNCHANGED <<envVars, entry, loaded, calls, loopVars, raised, loopExit,
                 cleanupRuns>>

\* switch_runlevel(runlevel): one subprocess.call.
switch_runlevel(runlevel) == << <<"/sbin/openrc", runlevel>> >>

\* start_services / stop_services: one subprocess.call per listed service.
RECURSIVE service_calls(_, _)
service_calls(services, verb) ==
  IF services = << >>
    THEN << >>
    ELSE << <<"/sbin/service", Head(services), verb>> >>
         \o service_calls(Tail(services), verb)

\* switch_runlevel(default), line 120, resp. start_services(services),
\* line 140.
StartAction ==
  /\ pc = "start"
  /\ calls' = calls \o
       (IF entry.fn = "supervise_runlevel"
          THEN switch_runlevel(entry.default[1])
          ELSE service_calls(entry.services[1], "start"))
  /\ pc' = "monitor"
  /\ UNCHANGED <<envVars, entry, loaded, exitfuncs, loopVars, raised,
                 loopExit, cleanupRuns>>

\* list(runlevel_services(runlevel)): the names under the runlevel's
\* directory, in the order glob returns them.
runlevel_services(fs0) ==
  {l \in [1..Cardinality(fs0.runlevel) -> fs0.runlevel] :
     \A s \in fs0.runlevel : \E i \in DOMAIN l : l[i] = s}

\* monitor_runlevel, lines 85-86: entry into monitor_services with the
\* runlevel's services.
MonitorRunlevel ==
  /\ pc = "monitor"
  /\ entry.fn = "supervise_runlevel"
  /\ required' \in runlevel_services(fs)
  /\ pc' = "check"
  /\ UNCHANGED <<envVars, entry, loaded, exitfuncs, calls, missing, snap,
                 ticks, sleeps, prompts, lastAnswer, handlerCalls, raised,
                 loopExit, cleanupRuns>>

\* Entry into monitor_services with the given list, lines 88 and 143.
MonitorServices ==
  /\ pc = "monitor"
  /\ entry.fn # "supervise_runlevel"
  /\ required' = entry.services[1]
  /\ pc' = "check"
  /\ UNCHANGED <<envVars, entry, loaded, exitfuncs, calls, missing, snap,
                 ticks, sleeps, prompts, lastAnswer, handlerCalls, raised,
                 loopExit, cleanupRuns>>

\* missing = check_daemons(services), line 91: the call returns the missing
\* set, or an exception leaves it and, uncaught, monitor_services and the
\* program.
Check ==
  /\ pc = "check"
  /\ ticks < MaxTicks
  /\ ticks' = ticks + 1
  /\ snap' = fs
  /\ \E r \in check_daemons(required, fs) :
       IF r.raised = "none"
         THEN /\ missing' = r.missing
              /\ pc' = "react"
              /\ UNCHANGED <<raised, loopExit>>
         ELSE /\ Raise(r.raised, "check_daemons")
              /\ loopExit' = "raised"
              /\ UNCHANGED missing
  /\ UNCHANGED <<envVars, entry, loaded, exitfuncs, calls, required, sleeps,
                 prompts, lastAnswer, handlerCalls, cleanupRuns>>

\* The arguments of the handler call for a missing set, lines 99-102.
HandlerArgs(m) ==
  IF Cardinality(m) > 0
    THEN [status |-> "failure", services |-> Some(m)]
    ELSE [status |-> "success", services |-> None]

\* Mutant of React: without a handler the loop is not left on a missing
\* service; the tick goes to sleep.
React_NoBreak ==
  /\ pc = "react"
  /\ IF entry.handler
       THEN handlerCalls' = Append(handlerCalls, HandlerArgs(missing))
       ELSE UNCHANGED handlerCalls
  /\ pc' = "sleep"
  /\ sleeps' = sleeps + 1
  /\ UNCHANGED <<envVars, entry, loaded, exitfuncs, calls, required, missing,
                 snap, ticks, prompts, lastAnswer, raised, loopExit,
                 cleanupRuns>>

\* Mutant of React: after the handler call the loop goes on to the next
\* check without sleeping.
React_NoSleep ==
  /\ pc = "react"
  /\ IF entry.handler
       THEN /\ handlerCalls' = Append(handlerCalls, HandlerArgs(missing))
            /\ pc' = "check"
            /\ UNCHANGED <<loopExit, sleeps>>
     ELSE IF Cardinality(missing) > 0
       THEN /\ loopExit' = "missing"
            /\ pc' = "afterloop"
            /\ UNCHANGED <<handlerCalls, sleeps>>
     ELSE /\ pc' = "sleep"
          /\ sleeps' = sleeps + 1
          /\ UNCHANGED <<handlerCalls, loopExit>>
  /\ UNCHANGED <<envVars, entry, loaded, exitfuncs, calls, required, missing,
                 snap, ticks, prompts, lastAnswer, raised, cleanupRuns>>

\* Lines 93-106: the handler is called, or without one the loop is left when
\* a service is missing; otherwise the tick goes on to time.sleep.
React ==
  /\ pc = "react"
  /\ IF entry.handler
       THEN /\ handlerCalls' = Append(handlerCalls, HandlerArgs(missing))
            /\ pc' = "sleep"
            /\ sleeps' = sleeps + 1
            /\ UNCHANGED loopExit
     ELSE IF Cardinality(missing) > 0
       THEN /\ loopExit' = "missing"
            /\ pc' = "afterloop"
            /\ UNCHANGED <<handlerCalls, sleeps>>
     ELSE /\ pc' = "sleep"
          /\ sleeps' = sleeps + 1
          /\ UNCHANGED <<handlerCalls, loopExit>>
  /\ UNCHANGED <<envVars, entry, loaded, exitfuncs, calls, required, missing,
                 snap, ticks, prompts, lastAnswer, raised, cleanupRuns>>

\* Mutant of SleepElapses: in runlevel mode the required list is read from
\* the runlevel's directory again before the next tick.
SleepElapses_Rederive ==
  /\ pc = "sleep"
  /\ pc' = "check"
  /\ IF entry.fn = "supervise_runlevel"
       THEN required' \in runlevel_services(fs)
       ELSE UNCHANGED required
  /\ UNCHANGED <<envVars, entry, loaded, exitfuncs, calls, missing, snap,
                 ticks, sleeps, prompts, lastAnswer, handlerCalls, raised,
                 loopExit, cleanupRuns>>

\* time.sleep(timeout) returns, line 109: the next tick begins.
SleepElapses ==
  /\ pc = "sleep"
  /\ pc' = "check"
  /\ UNCHANGED <<envVars, entry, loaded, exitfuncs, calls, loopVars, raised,
                 loopExit, cleanupRuns>>

\* KeyboardInterrupt in the try block, line 110: query_user is called.
SleepInterrupted ==
  /\ pc = "sleep"
  /\ pc' = "gate"
  /\ prompts' = 0
  /\ UNCHANGED <<envVars, entry, loaded, exitfuncs, calls, required, missing,
                 snap, ticks, sleeps, lastAnswer, handlerCalls, raised,
                 loopExit, cleanupRuns>>

\* What the operator can type at the prompt.
Responses == {"Y", "y", "N", "YES", ""}

\* str.lower()
Lower(str) ==
  CASE str = "Y" -> "y"
    [] str = "N" -> "n"
    [] str = "YES" -> "yes"
    [] OTHER -> str

\* Mutant of query_user: a response that is no option returns None instead
\* of prompting again.
query_user_NoReprompt(opts, response) ==
  LET lower_opts == [i \in DOMAIN opts |-> Lower(opts[i])]
  IN  IF \E i \in DOMAIN lower_opts : lower_opts[i] = Lower(response)
        THEN [returns |-> TRUE,
              value |-> Some(opts[CHOOSE i \in DOMAIN lower_opts :
                          /\ lower_opts[i] = Lower(response)
                          /\ \A j \in 1..(i - 1) :
                               lower_opts[j] # Lower(response)])]
        ELSE [returns |-> TRUE, value |-> None]

\* One pass of query_user's while loop for a response: whether the function
\* returns, and then the value returned (an option, or None); otherwise the
\* loop goes round and prompts again.
query_user(opts, response) ==
  LET lower_opts == [i \in DOMAIN opts |-> Lower(opts[i])]
  IN  IF \E i \in DOMAIN lower_opts : lower_opts[i] = Lower(response)
        THEN [returns |-> TRUE,
              value |-> Some(opts[CHOOSE i \in DOMAIN lower_opts :
                          /\ lower_opts[i] = Lower(response)
                          /\ \A j \in 1..(i - 1) :
                               lower_opts[j] # Lower(response)])]
      ELSE IF Len(opts) <= 1
        THEN [returns |-> TRUE, value |-> None]
      ELSE [returns |-> FALSE, value |-> None]

GateOpts == <<"Y", "N">>

\* Lines 111-113: the operator answers the prompt.  "Y" leaves the loop, any
\* other value query_user returns goes on to the next tick.
GateAnswer ==
  /\ pc = "gate"
  /\ \E response \in Responses :
       LET answer == query_user(GateOpts, response)
       IN  IF ~answer.returns
             THEN /\ prompts < MaxPrompts
                  /\ prompts' = prompts + 1
                  /\ UNCHANGED <<pc, loopExit, lastAnswer>>
           ELSE IF answer.value = Some("Y")
             THEN /\ loopExit' = "quit"
                  /\ pc' = "afterloop"
                  /\ lastAnswer' = response
                  /\ UNCHANGED prompts
           ELSE /\ pc' = "check"
                /\ lastAnswer' = response
                /\ UNCHANGED <<prompts, loopExit>>
  /\ UNCHANGED <<envVars, entry, loaded, exitfuncs, calls, required, missing,
                 snap, ticks, sleeps, handlerCalls, raised, cleanupRuns>>

\* raw_input raises inside the except block: end of input, or a second
\* interrupt.  Nothing catches it.
GateRaises ==
  /\ pc = "gate"
  /\ \E e \in {"EOFError", "KeyboardInterrupt"} : Raise(e, "gate")
  /\ loopExit' = "raised"
  /\ UNCHANGED <<envVars, entry, loaded, exitfuncs, calls, loopVars,
                 cleanupRuns>>

\* The places outside the try block of lines 107-113 where the program runs.
UnguardedPlaces ==
  {"main", "supervise", "start", "monitor", "check", "react", "afterloop"}

\* SIGINT while the program is outside the try block: KeyboardInterrupt is
\* raised there and nothing catches it.
Interrupt ==
  /\ pc \in UnguardedPlaces
  /\ Raise("KeyboardInterrupt", pc)
  /\ loopExit' = IF pc \in {"check", "react"} THEN "raised" ELSE loopExit
  /\ UNCHANGED <<envVars, entry, loaded, exitfuncs, calls, loopVars,
                 cleanupRuns>>

\* Lines 125 and 145 (and the return of monitor_services to its caller): the
\* program runs to its end.
AfterLoop ==
  /\ pc = "afterloop"
  /\ pc' = "exit"
  /\ UNCHANGED <<envVars, entry, loaded, exitfuncs, calls, loopVars, raised,
                 loopExit, cleanupRuns>>

\* The subprocess calls of one registered exit function.
exitfunc_calls(f) ==
  IF f.fn = "switch_runlevel"
    THEN switch_runlevel(f.arg[1])
    ELSE service_calls(f.arg[1], "stop")

\* The calls of the registered exit functions, last registered first.
RECURSIVE run_exitfuncs(_)
run_exitfuncs(funcs) ==
  IF funcs = << >>
    THEN << >>
    ELSE exitfunc_calls(funcs[Len(funcs)])
         \o run_exitfuncs(SubSeq(funcs, 1, Len(funcs) - 1))

\* Mutant of AtExit: the registered functions run only when the program ends
\* without an exception (as if the cleanup were called after monitoring
\* returns).
AtExit_NormalExitOnly ==
  /\ pc = "exit"
  /\ IF raised.type = "none"
       THEN /\ calls' = calls \o run_exitfuncs(exitfuncs)
            /\ cleanupRuns' = cleanupRuns + Len(exitfuncs)
       ELSE UNCHANGED <<calls, cleanupRuns>>
  /\ pc' = "done"
  /\ UNCHANGED <<envVars, entry, loaded, exitfuncs, loopVars, raised,
                 loopExit>>

\* Interpreter exit (return from main, sys.exit, or an uncaught exception):
\* atexit runs every registered function once.
AtExit ==
  /\ pc = "exit"
  /\ calls' = calls \o run_exitfuncs(exitfuncs)
  /\ cleanupRuns' = cleanupRuns + Len(exitfuncs)
  /\ pc' = "done"
  /\ UNCHANGED <<envVars, entry, loaded, exitfuncs, loopVars, raised,
                 loopExit>>

(***************************************************************************)
(* The environment's steps: what the init subsystem, the daemons and the   *)
(* administrator do to the filesystem and the process table.               *)
(***************************************************************************)
EnvStep(fs1) ==
  /\ pc # "done"
  /\ envChanges < MaxEnvChanges
  /\ fs1 # fs
  /\ fs' = fs1
  /\ envChanges' = envChanges + 1
  /\ UNCHANGED <<entry, loaded, pc, exitfuncs, calls, loopVars, raised,
                 loopExit, cleanupRuns>>

\* A process ends.
ProcessExits ==
  \E p \in fs.alive : EnvStep([fs EXCEPT !.alive = @ \ {p}])

\* A pid file is removed, made unreadable or overwritten with text that is
\* no number.
PidfileChanges ==
  \E p \in PidPaths, c \in PidFileDamage :
    EnvStep([fs EXCEPT !.pidfiles[p] = c])

\* A daemon entry of a started service is recorded or removed.
DaemonEntryChanges ==
  \E s \in fs.started, n \in 0..MaxDaemons :
    /\ n - fs.daemonCount[s] \in {-1, 1}
    /\ EnvStep([fs EXCEPT !.daemonCount[s] = n])

\* A service is stopped: its started entry and its daemon entries go.
ServiceStops ==
  \E s \in fs.started :
    EnvStep([fs EXCEPT !.started = @ \ {s}, !.daemonCount[s] = 0])

\* A service is started: its started entry appears.
ServiceStarts ==
  \E s \in Services \ fs.started :
    EnvStep([fs EXCEPT !.started = @ \cup {s}])

\* The runtime directories are not there any more (the directory that
\* holds them is unmounted or replaced): the program finds no path of the
\* init subsystem's records.
RuntimeDirectoriesRemoved ==
  /\ fs.runtime
  /\ EnvStep([fs EXCEPT !.runtime = FALSE])

\* A service is added to or removed from the runlevel's directory.  (Only
\* runlevel_services reads the directory, so the step is left out of the
\* runs that never call it.)
RunlevelEdited ==
  /\ entry.fn = "supervise_runlevel"
  /\ \E s \in Services :
       EnvStep([fs EXCEPT !.runlevel =
                  IF s \in @ THEN @ \ {s} ELSE @ \cup {s}])

Next ==
  \/ Main
  \/ AtexitRegister
  \/ StartAction
  \/ MonitorRunlevel
  \/ MonitorServices
  \/ Check
  \/ React
  \/ SleepElapses
  \/ SleepInterrupted
  \/ GateAnswer
  \/ GateRaises
  \/ Interrupt
  \/ AfterLoop
  \/ AtExit
  \/ ProcessExits
  \/ PidfileChanges
  \/ DaemonEntryChanges
  \/ ServiceStops
  \/ ServiceStarts
  \/ RuntimeDirectoriesRemoved
  \/ RunlevelEdited

Spec == Init /\ [][Next]_vars

(***************************************************************************)
(* load_daemon called on its own: one descriptor file, read once.          *)
(***************************************************************************)

\* How many lines a descriptor of ReaderSpec has at most.
MaxLines == 3

NoEquals(key) == key \o <<NL>>

\* The lines a descriptor is made of: argv entries with the indices 0, 1, 2
\* and 8, a pidfile entry, and lines without '=' whose keys are argv_1,
\* pidfile and a word that is no key of load_daemon.
DescriptorLines ==
  {DescriptorWeb[2],
   DescriptorWeb[3],
   ArgvPrefix \o <<"2", "=", "-", "v", NL>>,
   ArgvPrefix \o <<"8", "=", "x", NL>>,
   DescriptorWeb[4],
   NoEquals(ArgvPrefix \o <<"1">>),
   NoEquals(PidfileKey),
   NoEquals(<<"j", "u", "n", "k">>)}

RECURSIVE SeqsUpTo(_, _)
SeqsUpTo(S, n) ==
  IF n = 0
    THEN {<< >>}
    ELSE LET shorter == SeqsUpTo(S, n - 1)
         IN  shorter \cup {Append(q, x) : q \in shorter, x \in S}

Descriptors == SeqsUpTo(DescriptorLines, MaxLines)

\* What /run/web.pid holds when the descriptor is read.
PidFile0 == [kind |-> "file", line |-> <<"0", NL>>]

ReaderPidFiles == {Absent, Unreadable, PidFile17, PidFile0, PidFileGarbage}

ReaderFs ==
  {[started |-> {},
    daemonCount |-> [s \in Services |-> 0],
    pidfiles |-> [p \in PidPaths |-> IF p = WebPidPath THEN w ELSE Absent],
    alive |-> a,
    runlevel |-> {},
    runtime |-> TRUE,
    input |-> lines] :
      w \in ReaderPidFiles, a \in {{}, {17}}, lines \in Descriptors}

ReaderInit ==
  /\ fs \in ReaderFs
  /\ envChanges = 0
  /\ entry = [fn |-> "load_daemon", services |-> None, default |-> None,
              shutdown |-> None, handler |-> FALSE]
  /\ pc = "load_daemon"
  /\ exitfuncs = << >>
  /\ calls = << >>
  /\ required = << >>
  /\ missing = {}
  /\ snap = fs
  /\ ticks = 0
  /\ sleeps = 0
  /\ prompts = 0
  /\ lastAnswer = "-"
  /\ handlerCalls = << >>
  /\ raised = NoException
  /\ loopExit = "none"
  /\ cleanupRuns = 0
  /\ loaded = EmptyDaemon

\* daemon = load_daemon(path) for the file at InputPath.
LoadDaemon ==
  /\ pc = "load_daemon"
  /\ loaded' = load_daemon(InputPath, fs)
  /\ pc' = "loaded"
  /\ UNCHANGED <<envVars, entry, exitfuncs, calls, loopVars, raised, loopExit,
                 cleanupRuns>>

ReaderNext == LoadDaemon

ReaderSpec == ReaderInit /\ [][ReaderNext]_vars

(***************************************************************************)
(* Properties.                                                             *)
(***************************************************************************)

\* How often x occurs in the sequence q.
Count(q, x) == Cardinality({i \in DOMAIN q : q[i] = x})

\* The session registered a cleanup action (supervise_runlevel or
\* supervise_services got as far as atexit.register).
SessionRegistered == exitfuncs # << >>

\* The mapping load_daemons returned to the last check_daemons call.
SnapServices == load_daemons(snap).services

\* C1: in a session of supervise_runlevel or supervise_services the registered
\* cleanup action never runs while the program is still running (so never
\* before the loop is left) and never twice, and when the program has ended
\* -- the loop left on a missing service, on Y at the gate, or by an uncaught
\* exception or interrupt -- it has run exactly once: the shutdown runlevel
\* was switched to as the last call, resp. every named service was stopped.
C1_CleanupExactlyOnceAfterLoop ==
  /\ cleanupRuns <= 1
  /\ cleanupRuns = 1 => pc = "done" /\ SessionRegistered
  /\ pc # "done" =>
       /\ Count(calls, <<"/sbin/openrc", "shutdown">>) = 0
       /\ \A s \in Services : Count(calls, <<"/sbin/service", s, "stop">>) = 0
  /\ pc = "done" /\ ticks > 0 => loopExit \in {"missing", "quit", "raised"}
  /\ pc = "done" /\ SessionRegistered =>
       /\ cleanupRuns = 1
       /\ IF entry.fn = "supervise_runlevel"
            THEN /\ calls[Len(calls)] = <<"/sbin/openrc", "shutdown">>
                 /\ Count(calls, <<"/sbin/openrc", "shutdown">>) = 1
            ELSE \A s \in Services :
                   Count(calls, <<"/sbin/service", s, "stop">>)
                     = Count(entry.services[1], s)

\* C1 witness: a runlevel session whose loop was left by an uncaught exception
\* of check_daemons in its second tick has ended with the cleanup run once.
C1_Witness ==
  /\ pc = "done"
  /\ entry.fn = "supervise_runlevel"
  /\ loopExit = "raised"
  /\ raised.at = "check_daemons"
  /\ ticks = 2
  /\ cleanupRuns = 1

\* C2: without a handler, a tick whose missing set is non-empty leaves the
\* loop without sleeping, and a tick whose missing set is empty does not
\* leave the loop on its own account but goes to sleep; so when the loop is
\* left on a missing service every earlier tick has slept and the last has
\* not (none at all when it is the first tick).
C2_UnattendedTermination ==
  [][/\ (pc = "react" /\ ~entry.handler /\ missing # {}) =>
          /\ pc' \in {"react", "afterloop", "exit"}
          /\ sleeps' = sleeps
          /\ (pc' = "afterloop" => loopExit' = "missing")
     /\ (pc = "react" /\ ~entry.handler /\ missing = {}) =>
          /\ pc' \in {"react", "sleep", "exit"}
          /\ loopExit' # "missing"
          /\ (pc' = "sleep" => sleeps' = sleeps + 1)
     /\ (loopExit' = "missing") =>
          ~entry.handler /\ missing' # {} /\ sleeps' = ticks' - 1]_vars

\* C2 witness: the only required service is stopped on the first tick, and the
\* loop has been left on tick 1 with no sleep.
C2_Witness ==
  /\ ~entry.handler
  /\ required = <<"web">>
  /\ loopExit = "missing"
  /\ missing = {"web"}
  /\ ticks = 1
  /\ sleeps = 0

\* C3 (as claimed): with a handler, the handler has been called once per tick
\* with failure and the missing set, or success and None, and nothing but an
\* interrupt ends the loop: it is left by Y at the gate (or, read widely, by
\* a KeyboardInterrupt), never by a failure.
C3_AttendedEndsOnlyAtGate ==
  entry.handler =>
    /\ loopExit \in {"none", "quit"} \/ raised.type = "KeyboardInterrupt"
    /\ pc \in {"sleep", "gate"} =>
         /\ Len(handlerCalls) = ticks
         /\ handlerCalls[ticks] =
              IF missing # {}
                THEN [status |-> "failure", services |-> Some(missing)]
                ELSE [status |-> "success", services |-> None]

\* C4: an interrupt in the sleep phase leads to the gate and nowhere else;
\* the gate lets the loop go on only on n/N, to the top of the next tick and
\* with no cleanup run, leaves the loop only on y/Y, and on any other
\* response stays where it is; after Y the cleanup has run exactly once when
\* the program has ended.
C4_ConfirmationGate ==
  [][/\ (pc = "sleep" /\ pc' # "sleep") => pc' \in {"check", "gate"}
     /\ (pc = "gate" /\ pc' = "check") =>
          /\ lastAnswer' \in {"N", "n"}
          /\ ticks' = ticks /\ sleeps' = sleeps
          /\ loopExit' = "none"
          /\ cleanupRuns' = 0
     /\ (pc = "gate" /\ pc' = "afterloop") =>
          /\ lastAnswer' \in {"Y", "y"}
          /\ loopExit' = "quit"
          /\ cleanupRuns' = 0
     /\ (pc = "gate" /\ pc' = "gate" /\ prompts' # prompts) =>
          /\ prompts' = prompts + 1
          /\ UNCHANGED <<lastAnswer, loopExit, ticks, sleeps, cleanupRuns>>
     /\ (pc' = "done" /\ loopExit' = "quit" /\ exitfuncs' # << >>) =>
          cleanupRuns' = 1]_vars

\* C4 witness: the operator was prompted again after a refused response,
\* then answered y; the session has ended with the cleanup run once.
C4_Witness ==
  /\ pc = "done"
  /\ loopExit = "quit"
  /\ lastAnswer = "y"
  /\ prompts = 1
  /\ SessionRegistered
  /\ cleanupRuns = 1

\* C5 (as claimed): no interrupt ends the loop without a Y at the gate: no
\* KeyboardInterrupt raised while the tick computes the missing set or reacts
\* to it ends the program.
C5_InterruptOnlyThroughGate ==
  ~(raised.type = "KeyboardInterrupt" /\ raised.at \in {"check", "react"})

\* C6: the set check_daemons returns is exactly the required names that are
\* no key of the mapping load_daemons returned or are stopped in it.
C6_MissingIsAbsentOrStopped ==
  pc = "react" =>
    missing = {s \in {required[i] : i \in DOMAIN required} :
                 \/ s \notin DOMAIN SnapServices
                 \/ SnapServices[s].status = "stopped"}

\* C6 witness: web is started, db is stopped and cache is unknown; all three
\* are required and the missing set is {db, cache}.
C6_Witness ==
  /\ pc = "react"
  /\ required = <<"db", "web", "cache">>
  /\ DOMAIN SnapServices = {"web", "db"}
  /\ SnapServices["web"].status = "started"
  /\ SnapServices["web"].daemons # << >>
  /\ SnapServices["db"].status = "stopped"
  /\ missing = {"db", "cache"}

\* The daemon descriptor entry d of a service yields no resolved live pid.
NoLivePid(name, d, fs0) ==
  load_daemon(DaemonPath(name, d), fs0).pid = None

\* C7 (as claimed): a started service is stopped exactly when one of its own
\* daemon descriptors under daemons/<name>/ yields no resolved live pid.
C7_StatusFromOwnDescriptors ==
  pc = "react" =>
    \A s \in glob_started(snap) :
      SnapServices[s].status = "stopped"
        <=> \E d \in 1..glob_daemons(s, snap) : NoLivePid(s, d, snap)

\* C8: a service with a started entry and no daemon entries is classified
\* started, and is not in the missing set.
C8_NoDaemonsIsStarted ==
  pc = "react" =>
    \A s \in glob_started(snap) :
      glob_daemons(s, snap) = 0 =>
        SnapServices[s].status = "started" /\ s \notin missing

\* C8 witness: db is required, has a started entry and no daemon entries, and
\* is not reported missing.
C8_Witness ==
  /\ pc = "react"
  /\ "db" \in glob_started(snap)
  /\ glob_daemons("db", snap) = 0
  /\ \E i \in DOMAIN required : required[i] = "db"
  /\ "db" \notin missing

\* A pid file that exists and cannot be opened or holds no integer.
Malformed(pidfile) ==
  \/ pidfile.kind = "unreadable"
  \/ pidfile.kind = "file" /\ ~PyInt(RStrip(pidfile.line)).ok

\* C9 (as claimed): when the last tick read, for a daemon entry of web, a
\* file whose pidfile line names a malformed pid file, load_daemon returned a
\* record with pid None and no exception left check_daemons to abort the
\* tick and end the program.
C9_MalformedPidFileCaught ==
  (/\ ticks > 0
   /\ "web" \in glob_started(snap)
   /\ glob_daemons("web", snap) > 0
   /\ Malformed(snap.pidfiles[WebPidPath])) =>
    /\ load_daemon(DaemonFileRead("web", 1), snap).raised = "none"
    /\ load_daemon(DaemonFileRead("web", 1), snap).pid = None
    /\ raised.at # "check_daemons"

\* C10 (as claimed): a tick's failed read is not fatal: the loop is left on
\* a missing service or on Y at the gate, never by an exception that
\* check_daemons, load_daemons or load_daemon raises.
C10_ReadFailureNotFatal ==
  loopExit # "none" =>
    \/ loopExit \in {"missing", "quit"}
    \/ raised.at # "check_daemons"


\* The names a list holds.
Range(q) == {q[i] : i \in DOMAIN q}

\* C11: when the runtime directories are absent at a tick, load_daemons
\* answers the empty mapping and raises nothing, the missing set is the whole
\* required set, and a loop without handler over a non-empty required set is
\* left in that tick: it neither sleeps nor checks again (an interrupt may
\* end the program before the loop is left).
C11_MissingRuntimeDirectory ==
  (ticks > 0 /\ ~snap.runtime) =>
    /\ load_daemons(snap) = [raised |-> {}, services |-> << >>]
    /\ raised.at # "check_daemons"
    /\ missing = Range(required)
    /\ (~entry.handler /\ required # << >>) =>
         /\ pc \in {"react", "afterloop", "exit", "done"}
         /\ sleeps = ticks - 1
         /\ \/ loopExit = (IF pc = "react" THEN "none" ELSE "missing")
            \/ raised.type = "KeyboardInterrupt"

\* C11 witness: services are recorded as started, the directories are absent
\* at the first tick, and the loop without handler was left on it.
C11_Witness ==
  /\ ticks = 1
  /\ ~snap.runtime
  /\ snap.started # {}
  /\ ~entry.handler
  /\ required # << >>
  /\ missing = Range(required)
  /\ loopExit = "missing"
  /\ pc = "done"


\* The runs that go through supervise_runlevel or supervise_services.
Wrapped == entry.fn \in {"main", "supervise_runlevel", "supervise_services"}

\* C12 (as claimed): the start action comes before the registration of the
\* cleanup: when the start action is about to run, nothing is registered.
C12_StartBeforeRegistration ==
  pc = "start" => exitfuncs = << >>

\* C12 (amended): in both wrappers the cleanup is registered first, with
\* nothing called yet; then the start action runs; then the required list is
\* set (in runlevel mode from the runlevel's directory) and the loop is
\* entered without handler; no tick comes before the registration.
C12_RegistrationThenStart ==
  [][/\ exitfuncs' # exitfuncs =>
          pc = "supervise" /\ calls = << >> /\ pc' = "start"
     /\ (pc = "start" /\ pc' = "monitor") =>
          /\ Len(exitfuncs) = 1
          /\ calls = << >>
          /\ calls' = IF entry.fn = "supervise_runlevel"
                        THEN switch_runlevel(entry.default[1])
                        ELSE service_calls(entry.services[1], "start")
          /\ required = << >> /\ ticks = 0
     /\ (Wrapped /\ pc = "monitor" /\ pc' = "check") =>
          /\ Len(exitfuncs) = 1
          /\ ~entry.handler
          /\ ticks = 0
          /\ entry.fn = "supervise_runlevel" =>
               calls = switch_runlevel(entry.default[1])
                 /\ Range(required') = fs.runlevel
     /\ (Wrapped /\ ticks' # ticks) => Len(exitfuncs) = 1
    ]_vars

\* C12 witness: supervise_services has registered the cleanup and not yet
\* started the two services of its list.
C12_Witness ==
  /\ entry.fn = "supervise_services"
  /\ entry.services = Some(<<"web", "db">>)
  /\ pc = "start"
  /\ exitfuncs = <<[fn |-> "stop_services", arg |-> entry.services]>>
  /\ calls = << >>


\* C13 (as claimed): main without runlevel pair and without service list
\* ends with status 0, nothing registered and nothing called; with a service
\* list it enters supervise_services; with a runlevel pair and no service
\* list it enters supervise_runlevel, which registers the switch to the
\* shutdown runlevel.  (A run ended by an interrupt is left aside.)
C13_MainDispatch ==
  (/\ entry.fn = "main"
   /\ pc \in {"exit", "done"}
   /\ raised.type # "KeyboardInterrupt") =>
    IF entry.services # None
      THEN exitfuncs = <<[fn |-> "stop_services", arg |-> entry.services]>>
    ELSE IF entry.default # None /\ entry.shutdown # None
      THEN exitfuncs = <<[fn |-> "switch_runlevel", arg |-> entry.shutdown]>>
    ELSE exitfuncs = << >> /\ calls = << >> /\ raised = NoException


\* The lists that hold the entries of q in another order.
Reorderings(q) ==
  {[i \in DOMAIN q |-> q[p[i]]] : p \in Permutations(DOMAIN q)}

\* C14: when a tick's check_daemons call has returned, calling it again
\* with the same snapshot answers the set the tick got, and so does calling
\* it with the required list in any other order: the answer is fixed by the
\* snapshot and the names required, whatever the ticks before answered.
C14_CheckOrderIndependent ==
  pc = "react" =>
    \A q \in Reorderings(required) :
      check_daemons(q, snap) = {[raised |-> "none", missing |-> missing]}

\* C14 witness: a second tick over three required services finds two of them
\* missing, so that the orders of the list differ in which comes first.
C14_Witness ==
  /\ ticks = 2
  /\ pc = "react"
  /\ Len(required) = 3
  /\ Cardinality(Reorderings(required)) = 6
  /\ Cardinality(missing) = 2


\* C15 (as claimed): whatever the key of a line without '=', load_daemon
\* raises nothing on it: a descriptor whose pid file is absent or holds a
\* number, and whose indices are numbers, is read without an exception.
C15_NoSeparatorTolerated ==
  (/\ pc = "loaded"
   /\ fs.pidfiles[WebPidPath] \in {Absent, PidFile17}) =>
    loaded.raised = "none"


\* The pids a pidfile entry of the lines leads to and os.kill(pid, 0) can
\* signal: the entry's value names a regular file whose first line is the
\* pid's number.
LivePids(lines, fs0) ==
  {pid \in {q \in Pids \cup {0} : KillSucceeds(q, fs0)} :
     \E i \in DOMAIN lines, p \in PidPaths :
       /\ RStrip(lines[i]) = PidfileKey \o <<"=">> \o p
       /\ fs0.pidfiles[p].kind = "file"
       /\ PyInt(RStrip(fs0.pidfiles[p].line)) = [ok |-> TRUE, val |-> pid]}

\* C17: the record load_daemon returns has a pid exactly when the descriptor
\* has a pidfile entry that names a regular file whose first line is a
\* number that os.kill can signal when the file is read (a process that
\* exists, or 0, the caller's own process group), and the pid is that
\* number; in every other case of a returned record the pid is None.
C17_PidIffLivePidfile ==
  (pc = "loaded" /\ loaded.raised = "none") =>
    /\ loaded.pid # None <=> LivePids(fs.input, fs) # {}
    /\ loaded.pid # None => loaded.pid[1] \in LivePids(fs.input, fs)

\* C17 witness: the pidfile entry is the second of three lines, the pid file
\* holds 17 and process 17 runs.
C17_Witness ==
  /\ pc = "loaded"
  /\ Len(fs.input) = 3
  /\ fs.input[2] = DescriptorWeb[4]
  /\ fs.pidfiles[WebPidPath] = PidFile17
  /\ 17 \in fs.alive
  /\ loaded.pid = Some(17)


\* The positions of the argv lines of a descriptor, the index such a line
\* gives (one digit in the descriptors here) and the value it gives: the
\* text after the '=' that follows the index, None without it.
ArgvLines(lines) == {i \in DOMAIN lines : StartsWith(lines[i], ArgvPrefix)}

ArgvIndex(line) == DigitVal(line[Len(ArgvPrefix) + 1])

ArgvValue(line) ==
  LET text == RStrip(line)
      eq == Len(ArgvPrefix) + 2
  IN  IF Len(text) >= eq /\ text[eq] = "="
        THEN Some(SubSeq(text, eq + 1, Len(text)))
        ELSE None

ArgvIndices(lines) == {ArgvIndex(lines[i]) : i \in ArgvLines(lines)}

\* The value of the last line that gives index n.
ArgvLast(lines, n) ==
  ArgvValue(lines[CHOOSE i \in ArgvLines(lines) :
                    /\ ArgvIndex(lines[i]) = n
                    /\ \A j \in ArgvLines(lines) :
                         ArgvIndex(lines[j]) = n => j <= i])

\* C18: when the argv lines of a descriptor give the indices 0..k, in any
\* order in the file, the argv list of the returned record holds the values
\* in ascending order of their indices.
C18_ArgvAscending ==
  (/\ pc = "loaded"
   /\ loaded.raised = "none"
   /\ \E k \in 0..MaxLines : ArgvIndices(fs.input) = 0..k) =>
    loaded.argv = [n \in 1..Cardinality(ArgvIndices(fs.input)) |->
                     ArgvLast(fs.input, n - 1)]

\* C18 witness: the file has argv_2, argv_0 and argv_1 in this order, and the
\* list is argv_0's, argv_1's and argv_2's value.
C18_Witness ==
  /\ pc = "loaded"
  /\ Len(fs.input) = 3
  /\ fs.input[1] = ArgvPrefix \o <<"2", "=", "-", "v", NL>>
  /\ fs.input[2] = DescriptorWeb[2]
  /\ fs.input[3] = DescriptorWeb[3]
  /\ loaded.argv = <<Some(<<"/", "b", "i", "n", "/", "w", "e", "b">>),
                     Some(<<"-", "f">>), Some(<<"-", "v">>)>>


\* C16: a tick computes the missing set, then reacts, then sleeps once: a
\* computation begins only when every earlier tick has slept, the reaction
\* follows the computation, a sleep begins only from the reaction of a tick
\* that has not yet slept, and the next computation is reached only from the
\* sleep, when it times out, or from the gate on n/N, with no second sleep.
C16_OneSleepBetweenChecks ==
  [][/\ ticks' # ticks =>
          /\ pc = "check" /\ pc' \in {"react", "exit"}
          /\ ticks' = ticks + 1
          /\ sleeps = ticks
     /\ pc' = "react" => (pc = "react" \/ ticks' = ticks + 1)
     /\ sleeps' # sleeps =>
          /\ pc = "react" /\ pc' = "sleep"
          /\ sleeps' = sleeps + 1
          /\ sleeps' = ticks
     /\ (pc # "check" /\ pc' = "check" /\ ticks > 0) =>
          /\ pc \in {"sleep", "gate"}
          /\ pc = "gate" => lastAnswer' \in {"N", "n"}
          /\ sleeps' = ticks /\ sleeps' = sleeps
    ]_vars

\* C16 witness: the first tick's sleep was interrupted and the gate answered
\* N; the second tick has computed its missing set after that one sleep.
C16_Witness ==
  /\ ticks = 2
  /\ sleeps = 1
  /\ lastAnswer = "N"
  /\ pc = "react"


\* C19: the required list is set once, on entry into the loop and before the
\* first tick, in runlevel mode to the names then under the runlevel's
\* directory; no step after that changes it, whatever happens to the
\* directory.
C19_RequiredFixed ==
  [][/\ required' # required =>
          /\ pc = "monitor" /\ pc' = "check"
          /\ ticks = 0
     /\ (pc = "monitor" /\ pc' = "check") =>
          IF entry.fn = "supervise_runlevel"
            THEN Range(required') = fs.runlevel
                   /\ Len(required') = Cardinality(fs.runlevel)
            ELSE required' = entry.services[1]
     /\ fs'.runlevel # fs.runlevel => required' = required
    ]_vars

\* C19 witness: the runlevel's directory was changed after the loop was
\* entered, and the second tick still ran with the list of the entry.
C19_Witness ==
  /\ entry.fn = "supervise_runlevel"
  /\ ticks = 2
  /\ pc = "react"
  /\ Range(required) = {"web", "db"}
  /\ fs.runlevel # {"web", "db"}


\* C20 (as claimed): over an empty required list every tick's missing set is
\* empty, so the loop without handler is never left on a missing service and
\* nothing but an interrupt ends the run: the loop is left by Y at the gate,
\* or a KeyboardInterrupt (or the gate's end of input) ends the program.
C20_EmptyRequiredEndsOnlyByInterrupt ==
  (ticks > 0 /\ required = << >> /\ ~entry.handler) =>
    /\ missing = {}
    /\ \/ loopExit \in {"none", "quit"}
       \/ raised.type = "KeyboardInterrupt"
       \/ raised.at = "gate"

=============================================================================
